---------------------------- MODULE Spec2Model ----------------------------
(***************************************************************************)
(* Model of the glycemia tracker (GlicemiaTracker, useFirebaseAuth, App).  *)
(*                                                                         *)
(* Text values are sequences of one-character strings, so that parseFloat  *)
(* and the date constructor are computed character by character.  The     *)
(* decimal fraction a text denotes is exact, [num, den] with den a power   *)
(* of ten; the program's numbers are IEEE 754 doubles, computed bit by     *)
(* bit with the rounding of every operation.                               *)
(***************************************************************************)
EXTENDS Integers, Sequences, FiniteSets, TLC

(***************************************************************************)
(* Bounds of the model.                                                    *)
(***************************************************************************)
MaxRecords == 3
MaxSaves == 2
MaxSignIns == 2
Backlog == 99
MaxStale == 1

(***************************************************************************)
(* Program constants.                                                      *)
(***************************************************************************)
HypoLimit == 70
OptimalLimit == 130
ModerateLimit == 180
QueryLimit == 100

(***************************************************************************)
(* Numbers.                                                                *)
(***************************************************************************)
RECURSIVE Pow10(_)
Pow10(k) == IF k <= 0 THEN 1 ELSE 10 * Pow10(k - 1)

\* the decimal fraction n/d; NoNumber where a text holds no number
NoNumber == [nan |-> TRUE, num |-> 0, den |-> 1]

Num(n, d) == [nan |-> FALSE, num |-> n, den |-> d]

Abs(n) == IF n < 0 THEN -n ELSE n

Max2(a, b) == IF a >= b THEN a ELSE b

Min2(a, b) == IF a <= b THEN a ELSE b

(***************************************************************************)
(* JavaScript numbers: IEEE 754 binary64.  A finite number other than 0    *)
(* is its sign, its 53 significant bits (a sequence of 0 and 1, the first  *)
(* one 1) and the exponent of its last bit: the value is bits * 2^exp.     *)
(* Every operation gives the exact result rounded to the nearest such      *)
(* number, to the even one on a tie.  (The model's texts stay far from     *)
(* the subnormal range, which is not modelled; -0 is not told from 0.)     *)
(***************************************************************************)
NaN == [nan |-> TRUE, inf |-> FALSE, neg |-> FALSE, exp |-> 0, bits |-> <<>>]

Infinity(neg) == [nan |-> FALSE, inf |-> TRUE, neg |-> neg, exp |-> 0, bits |-> <<>>]

PlusZero == [nan |-> FALSE, inf |-> FALSE, neg |-> FALSE, exp |-> 0, bits |-> <<>>]

Finite(neg, e, bits) ==
    IF e > 971 THEN Infinity(neg)
    ELSE [nan |-> FALSE, inf |-> FALSE, neg |-> neg, exp |-> e, bits |-> bits]

IsZero(x) == ~x.nan /\ ~x.inf /\ x.bits = <<>>

Zeros(n) == [i \in 1..n |-> 0]

PadLeft(b, n) == Zeros(n - Len(b)) \o b

\* the bits of a natural number, without leading zeros
RECURSIVE NatBits(_)
NatBits(n) == IF n = 0 THEN <<>> ELSE Append(NatBits(n \div 2), n % 2)

\* 2^k for k in 0..30
Pow2(k) ==
    <<1, 2, 4, 8, 16, 32, 64, 128, 256, 512, 1024, 2048, 4096, 8192, 16384,
      32768, 65536, 131072, 262144, 524288, 1048576, 2097152, 4194304,
      8388608, 16777216, 33554432, 67108864, 134217728, 268435456,
      536870912, 1073741824>>[k + 1]

\* the natural number of the bits lo..hi of b (at most 30 of them)
RECURSIVE BitsVal(_, _, _)
BitsVal(b, lo, hi) == IF hi < lo THEN 0 ELSE 2 * BitsVal(b, lo, hi - 1) + b[hi]

\* the w bits of the natural number n < 2^w
BitsOf(n, w) == [j \in 1..w |-> (n \div Pow2(w - j)) % 2]

\* b without its leading zeros
StripZeros(b) ==
    LET ones == {i \in 1..Len(b) : b[i] = 1}
    IN  IF ones = {} THEN <<>>
        ELSE SubSeq(b, CHOOSE i \in ones : \A j \in ones : i <= j, Len(b))

\* a + b + c on the first i bits of two sequences of equal length, 24 bits
\* at a time; one bit longer than they are
RECURSIVE AddBits(_, _, _, _)
AddBits(a, b, i, c) ==
    IF i = 0 THEN <<c>>
    ELSE LET lo == Max2(1, i - 23)
             w == i - lo + 1
             s == BitsVal(a, lo, i) + BitsVal(b, lo, i) + c
         IN  AddBits(a, b, lo - 1, s \div Pow2(w)) \o BitsOf(s % Pow2(w), w)

\* a - b - c likewise, for a >= b
RECURSIVE SubBits(_, _, _, _)
SubBits(a, b, i, c) ==
    IF i = 0 THEN <<>>
    ELSE LET lo == Max2(1, i - 23)
             w == i - lo + 1
             d == BitsVal(a, lo, i) - BitsVal(b, lo, i) - c
         IN  SubBits(a, b, lo - 1, IF d < 0 THEN 1 ELSE 0)
                 \o BitsOf(IF d < 0 THEN d + Pow2(w) ELSE d, w)

\* -1, 0, 1 as a < b, a = b, a > b, for sequences of equal length from bit i
RECURSIVE CmpBits(_, _, _)
CmpBits(a, b, i) ==
    IF i > Len(a) THEN 0
    ELSE LET hi == Min2(Len(a), i + 23)
             x == BitsVal(a, i, hi)
             y == BitsVal(b, i, hi)
         IN  IF x < y THEN -1 ELSE IF x > y THEN 1 ELSE CmpBits(a, b, hi + 1)

\* The number nearest to sig * 2^e (+ a little, when sticky), where sig has
\* no leading zero; sig has at least 54 bits when sticky.
RoundBits(sig, e, sticky, neg) ==
    LET L == Len(sig)
    IN  IF L = 0 THEN PlusZero
        ELSE IF L <= 53 THEN Finite(neg, e - (53 - L), sig \o Zeros(53 - L))
        ELSE LET m == SubSeq(sig, 1, 53)
                 st == sticky \/ \E i \in 55..L : sig[i] = 1
                 up == sig[54] = 1 /\ (st \/ m[53] = 1)
                 r == AddBits(m, Zeros(52) \o <<1>>, 53, 0)
             IN  IF ~up THEN Finite(neg, e + L - 53, m)
                 ELSE IF r[1] = 1 THEN Finite(neg, e + L - 53 + 1, SubSeq(r, 1, 53))
                 ELSE Finite(neg, e + L - 53, Tail(r))

\* the first k bits of the binary fraction r/d (r < d), four at a time,
\* then the remainder
RECURSIVE FracStep(_, _, _)
FracStep(r, d, k) ==
    IF k = 0 THEN <<r>>
    ELSE LET w == Min2(4, k)
             t == r * Pow2(w)
         IN  BitsOf(t \div d, w) \o FracStep(t % d, d, k - w)

\* the number of zero bits the binary fraction r/d starts with (0 < r < d)
RECURSIVE LeadZeros(_, _)
LeadZeros(r, d) == IF 2 * r >= d THEN 0 ELSE 1 + LeadZeros(2 * r, d)

\* the Number value of the decimal fraction q
ToNumber(q) ==
    IF q.nan THEN NaN
    ELSE IF q.num = 0 THEN PlusZero
    ELSE LET a == Abs(q.num)
             ib == NatBits(a \div q.den)
             r0 == a % q.den
             F == IF ib # <<>> THEN Max2(0, 54 - Len(ib))
                  ELSE LeadZeros(r0, q.den) + 54
             fs == FracStep(r0, q.den, F)
         IN  IF r0 = 0 THEN RoundBits(ib, 0, FALSE, q.num < 0)
             ELSE RoundBits(StripZeros(ib \o SubSeq(fs, 1, F)), -F,
                            fs[F + 1] # 0, q.num < 0)

\* the Number value of an integer literal of the code
Number(n) == ToNumber(Num(n, 1))

\* -1, 0, 1 as a < b, a = b, a > b, for numbers other than NaN
SignOf(x) == IF IsZero(x) THEN 0 ELSE IF x.neg THEN -1 ELSE 1

CmpMagnitude(a, b) ==
    IF a.inf \/ b.inf THEN (IF a.inf /\ b.inf THEN 0 ELSE IF b.inf THEN -1 ELSE 1)
    ELSE IF a.exp < b.exp THEN -1
    ELSE IF a.exp > b.exp THEN 1
    ELSE CmpBits(a.bits, b.bits, 1)

Cmp(a, b) ==
    IF SignOf(a) # SignOf(b) THEN (IF SignOf(a) < SignOf(b) THEN -1 ELSE 1)
    ELSE IF SignOf(a) = 0 THEN 0
    ELSE SignOf(a) * CmpMagnitude(a, b)

\* JavaScript comparisons: every comparison with NaN is false.
JsLt(a, b) == ~a.nan /\ ~b.nan /\ Cmp(a, b) < 0

JsLe(a, b) == ~a.nan /\ ~b.nan /\ Cmp(a, b) <= 0

JsGt(a, b) == JsLt(b, a)

JsGe(a, b) == JsLe(b, a)

\* acc + v
JsAdd(a, b) ==
    IF a.nan \/ b.nan THEN NaN
    ELSE IF a.inf \/ b.inf
        THEN (IF a.inf /\ b.inf /\ a.neg # b.neg THEN NaN
              ELSE IF a.inf THEN a ELSE b)
    ELSE IF IsZero(a) THEN b
    ELSE IF IsZero(b) THEN a
    ELSE LET e == Min2(a.exp, b.exp)
             A0 == a.bits \o Zeros(a.exp - e)
             B0 == b.bits \o Zeros(b.exp - e)
             n == Max2(Len(A0), Len(B0))
             A == PadLeft(A0, n)
             B == PadLeft(B0, n)
             c == CmpBits(A, B, 1)
         IN  IF a.neg = b.neg
                 THEN RoundBits(StripZeros(AddBits(A, B, n, 0)), e, FALSE, a.neg)
             ELSE IF c = 0 THEN PlusZero
             ELSE IF c > 0
                 THEN RoundBits(StripZeros(SubBits(A, B, n, 0)), e, FALSE, a.neg)
             ELSE RoundBits(StripZeros(SubBits(B, A, n, 0)), e, FALSE, b.neg)

\* the quotient bits of the bits D by n from bit i on with remainder r,
\* sixteen at a time, then the last remainder
RECURSIVE DivStep(_, _, _, _)
DivStep(D, n, i, r) ==
    IF i > Len(D) THEN <<r>>
    ELSE LET hi == Min2(Len(D), i + 15)
             w == hi - i + 1
             t == r * Pow2(w) + BitsVal(D, i, hi)
         IN  BitsOf(t \div n, w) \o DivStep(D, n, hi + 1, t % n)

\* sum / values.length, for a count n; 0 / 0 is NaN
JsDiv(a, n) ==
    IF a.nan THEN NaN
    ELSE IF n = 0 THEN (IF IsZero(a) THEN NaN ELSE Infinity(a.neg))
    ELSE IF a.inf \/ IsZero(a) THEN a
    ELSE LET E == Len(NatBits(n)) + 1
             D == a.bits \o Zeros(E)
             qs == DivStep(D, n, 1, 0)
         IN  RoundBits(StripZeros(SubSeq(qs, 1, Len(D))), a.exp - E,
                       qs[Len(D) + 1] # 0, a.neg)

(***************************************************************************)
(* parseFloat: leading white space, an optional sign, digits, an optional  *)
(* fraction, an optional exponent; the longest such prefix is the value    *)
(* and anything after it is ignored; no digits at all gives NaN.           *)
(***************************************************************************)
Digits == <<"0", "1", "2", "3", "4", "5", "6", "7", "8", "9">>

IsDigit(c) == \E i \in 1..10 : Digits[i] = c

DigitVal(c) == (CHOOSE i \in 1..10 : Digits[i] = c) - 1

\* the number of digit characters of s from position i on
RECURSIVE DigitRun(_, _)
DigitRun(s, i) ==
    IF i <= Len(s) /\ IsDigit(s[i]) THEN 1 + DigitRun(s, i + 1) ELSE 0

\* the value of the n digits of s that start at position i
RECURSIVE DigitsVal(_, _, _)
DigitsVal(s, i, n) ==
    IF n = 0 THEN 0
    ELSE 10 * DigitsVal(s, i, n - 1) + DigitVal(s[i + n - 1])

RECURSIVE SkipSpaces(_, _)
SkipSpaces(s, i) ==
    IF i <= Len(s) /\ s[i] = " " THEN SkipSpaces(s, i + 1) ELSE i

\* the decimal fraction that the longest numeric prefix of s denotes
StrDecimalLiteral(s) ==
    LET i0 == SkipSpaces(s, 1)
        signed == i0 <= Len(s) /\ s[i0] \in {"+", "-"}
        neg == signed /\ s[i0] = "-"
        i1 == IF signed THEN i0 + 1 ELSE i0
        ni == DigitRun(s, i1)
        i2 == i1 + ni
        dot == i2 <= Len(s) /\ s[i2] = "."
        nf == IF dot THEN DigitRun(s, i2 + 1) ELSE 0
        i3 == IF dot THEN i2 + 1 + nf ELSE i2
        hasE == i3 <= Len(s) /\ s[i3] \in {"e", "E"}
        esigned == hasE /\ i3 + 1 <= Len(s) /\ s[i3 + 1] \in {"+", "-"}
        i4 == IF esigned THEN i3 + 2 ELSE i3 + 1
        ne == IF hasE THEN DigitRun(s, i4) ELSE 0
        ex == IF ne = 0 THEN 0
              ELSE IF esigned /\ s[i3 + 1] = "-" THEN -DigitsVal(s, i4, ne)
              ELSE DigitsVal(s, i4, ne)
        mant == DigitsVal(s, i1, ni) * Pow10(nf) + DigitsVal(s, i2 + 1, nf)
        m == IF neg THEN -mant ELSE mant
    IN  IF ni = 0 /\ nf = 0 THEN NoNumber
        ELSE IF ex >= nf THEN Num(m * Pow10(ex - nf), 1)
        ELSE Num(m, Pow10(nf - ex))

parseFloat(s) == ToNumber(StrDecimalLiteral(s))

(***************************************************************************)
(* Number.prototype.toFixed(f): the integer n for which n / 10^f - x is    *)
(* closest to zero, the larger n on a tie; the sign is taken first.        *)
(* A result is a record: of kind "digits" for the text sign n/10^digits,   *)
(* or of kind "NaN", "Infinity", "-Infinity" for these texts.              *)
(***************************************************************************)
Fixed(sign, n, digits) ==
    [kind |-> "digits", sign |-> sign, n |-> n, digits |-> digits]

Text(kind) == [kind |-> kind, sign |-> "", n |-> 0, digits |-> 0]

\* ten times the natural number of the bits b: 8b + 2b
Times10(b) ==
    AddBits(<<0>> \o b \o <<0, 0, 0>>, <<0, 0, 0>> \o b \o <<0>>, Len(b) + 4, 0)

RECURSIVE TimesPow10(_, _)
TimesPow10(b, f) == IF f = 0 THEN b ELSE TimesPow10(Times10(b), f - 1)

toFixed(x, f) ==
    IF x.nan THEN Text("NaN")
    ELSE IF x.inf THEN (IF x.neg THEN Text("-Infinity") ELSE Text("Infinity"))
    ELSE IF IsZero(x) THEN Fixed("", 0, f)
    ELSE LET P == TimesPow10(x.bits, f)
             k == -x.exp
             Pp == PadLeft(P, Max2(Len(P), k + 1))
             whole == Len(Pp) - k
         IN  Fixed(IF x.neg THEN "-" ELSE "",
                   IF k <= 0 THEN BitsVal(P \o Zeros(-k), 1, Len(P) - k)
                   ELSE BitsVal(Pp, 1, whole) + Pp[whole + 1],
                   f)

(***************************************************************************)
(* Classification (stats useMemo and getGlicemiaStyle).                    *)
(***************************************************************************)
\* the status and colour chosen for the average ("otimo" stands for the
\* source's accented tag)
statusOf(avg) ==
    IF JsLt(avg, Number(HypoLimit))
        THEN [status |-> "hipoglicemia", color |-> "bg-blue-500"]
    ELSE IF JsGt(avg, Number(ModerateLimit))
        THEN [status |-> "hiperglicemia", color |-> "bg-red-500"]
    ELSE IF JsGe(avg, Number(HypoLimit)) /\ JsLe(avg, Number(OptimalLimit))
        THEN [status |-> "otimo", color |-> "bg-lime-600"]
    ELSE IF JsGt(avg, Number(OptimalLimit)) /\ JsLe(avg, Number(ModerateLimit))
        THEN [status |-> "moderado", color |-> "bg-yellow-500"]
    ELSE [status |-> "normal", color |-> "bg-green-500"]

\* mutant: 130 itself no longer counts as optimal
getGlicemiaStyleExclusive(value) ==
    LET val == parseFloat(value)
    IN  IF JsLt(val, Number(HypoLimit)) THEN "text-blue-600"
        ELSE IF JsLt(val, Number(OptimalLimit)) THEN "text-green-600"
        ELSE IF JsLe(val, Number(ModerateLimit)) THEN "text-yellow-700"
        ELSE "text-red-600"

\* the row style, named by its first class
getGlicemiaStyle(value) ==
    LET val == parseFloat(value)
    IN  IF JsLt(val, Number(HypoLimit)) THEN "text-blue-600"
        ELSE IF JsLe(val, Number(OptimalLimit)) THEN "text-green-600"
        ELSE IF JsLe(val, Number(ModerateLimit)) THEN "text-yellow-700"
        ELSE "text-red-600"

(***************************************************************************)
(* Statistics (stats useMemo).                                             *)
(***************************************************************************)
\* registros.map(r => parseFloat(r.glicemia)).filter(v => !isNaN(v))
parsedValues(regs) ==
    SelectSeq([i \in 1..Len(regs) |-> parseFloat(regs[i].glicemia)],
              LAMBDA v : ~v.nan)

\* mutant: the reduction starts from the first value instead of 0
RECURSIVE sumOfFromFirst(_, _)
sumOfFromFirst(values, n) ==
    IF n = 0 THEN PlusZero
    ELSE IF n = 1 THEN JsAdd(values[1], values[1])
    ELSE JsAdd(sumOfFromFirst(values, n - 1), values[n])

\* values.reduce((acc, v) => acc + v, 0)
RECURSIVE sumOf(_, _)
sumOf(values, n) ==
    IF n = 0 THEN PlusZero ELSE JsAdd(sumOf(values, n - 1), values[n])

\* Math.min(...values): Infinity for no values
RECURSIVE MathMin(_, _)
MathMin(values, n) ==
    IF n = 0 THEN Infinity(FALSE)
    ELSE LET rest == MathMin(values, n - 1)
         IN  IF JsLt(values[n], rest) THEN values[n] ELSE rest

\* Math.max(...values): -Infinity for no values
RECURSIVE MathMax(_, _)
MathMax(values, n) ==
    IF n = 0 THEN Infinity(TRUE)
    ELSE LET rest == MathMax(values, n - 1)
         IN  IF JsGt(values[n], rest) THEN values[n] ELSE rest

\* mutant: no early return for the empty list
statsNoEmptyCase(regs) ==
    LET values == parsedValues(regs)
        sum == sumOf(values, Len(values))
        avg == JsDiv(sum, Len(values))
        st == statusOf(avg)
    IN  [avg |-> toFixed(avg, 1),
         count |-> Len(values),
         min |-> toFixed(MathMin(values, Len(values)), 0),
         max |-> toFixed(MathMax(values, Len(values)), 0),
         status |-> st.status,
         color |-> st.color]

stats(regs) ==
    IF Len(regs) = 0
    THEN [avg |-> Fixed("", 0, 0), count |-> 0, min |-> Fixed("", 0, 0),
          max |-> Fixed("", 0, 0), status |-> "info", color |-> "none"]
    ELSE LET values == parsedValues(regs)
             sum == sumOf(values, Len(values))
             avg == JsDiv(sum, Len(values))
             st == statusOf(avg)
         IN  [avg |-> toFixed(avg, 1),
              count |-> Len(values),
              min |-> toFixed(MathMin(values, Len(values)), 0),
              max |-> toFixed(MathMax(values, Len(values)), 0),
              status |-> st.status,
              color |-> st.color]

(***************************************************************************)
(* Dates.  A date text YYYY-MM-DD is the sequence of its three fields, a   *)
(* time text HH:MM the sequence of its two; the empty text is <<>>.        *)
(* Instants are seconds since 2024-01-01T00:00:00 local time.              *)
(***************************************************************************)
IsLeap(y) == (y % 4 = 0 /\ y % 100 # 0) \/ y % 400 = 0

DaysInMonth(y, m) ==
    IF m = 2 THEN (IF IsLeap(y) THEN 29 ELSE 28)
    ELSE IF m \in {4, 6, 9, 11} THEN 30 ELSE 31

RECURSIVE DaysBeforeMonth(_, _)
DaysBeforeMonth(y, m) ==
    IF m <= 1 THEN 0 ELSE DaysBeforeMonth(y, m - 1) + DaysInMonth(y, m - 1)

RECURSIVE DaysBeforeYear(_)
DaysBeforeYear(y) ==
    IF y <= 2024 THEN 0
    ELSE DaysBeforeYear(y - 1) + (IF IsLeap(y - 1) THEN 366 ELSE 365)

InvalidDate == [valid |-> FALSE, t |-> 0]

\* new Date(`${date}T${time}:${sec}`).  A day of the month past the end of
\* its month (up to 31) is engine dependent: "strict" engines give an
\* invalid date, "lenient" ones roll over into the next month.
NewDate(eng, date, time, sec) ==
    IF Len(date) # 3 \/ Len(time) # 2 THEN InvalidDate
    ELSE LET y == date[1]
             m == date[2]
             d == date[3]
             lastDay == IF eng = "lenient" THEN 31 ELSE DaysInMonth(y, m)
         IN  IF y < 2024 \/ m \notin 1..12 \/ d < 1 \/ d > lastDay
                \/ time[1] \notin 0..23 \/ time[2] \notin 0..59
             THEN InvalidDate
             ELSE [valid |-> TRUE,
                   t |-> ((DaysBeforeYear(y) + DaysBeforeMonth(y, m) + d - 1) * 24
                          + time[1]) * 3600 + time[2] * 60 + sec]

\* data.split('-').reverse().join('/')
RECURSIVE Reverse(_)
Reverse(s) == IF s = <<>> THEN <<>> ELSE Append(Reverse(Tail(s)), Head(s))

(***************************************************************************)
(* The values the model draws.                                             *)
(***************************************************************************)
Owners == {"o1", "o2"}

NoUser == "null"

\* what the owner types into the value field
GlicemiaInputs == {<<"1", "2", "0">>, <<"-", "5">>, <<"a", "b", "c">>}

\* the dates and times of the form; 2024-02-30 does not exist
Today == <<2024, 2, 29>>

CurrentTime == <<10, 0>>

DataInputs == {<<2024, 2, 29>>, <<2024, 2, 30>>}

HoraInputs == {<<10, 0>>, <<>>}

\* the dates of the range filter
FilterInputs == {<<2024, 2, 29>>, <<2024, 3, 1>>}

\* a date input yields a calendar date or, when it is cleared, the empty text
ClearedDate == <<>>

FilterInputsOrCleared == FilterInputs \cup {ClearedDate}

Engines == {"strict", "lenient"}

(***************************************************************************)
(* State.                                                                  *)
(***************************************************************************)
VARIABLES
    engine,          \* how the JavaScript engine parses an overflowing day
    user,            \* useFirebaseAuth: the authenticated owner or null
    store,           \* the document store: owner -> its documents, oldest first
    writes,          \* addDoc calls the store has not answered yet
    nextId,          \* the next document id
    glicemia,        \* form: value text
    data,            \* form: date text
    hora,            \* form: time text
    loadingSave,
    saveMessage,
    timers,          \* pending setTimeout callbacks that clear saveMessage
    registros,       \* the displayed record list
    loadingRecords,
    dataInicio,
    dataFim,
    sub,             \* the onSnapshot listener of the mounted tracker
    stale,           \* listeners of earlier runs of the history effect that
                     \* still have a delivery on its way
    crashed,         \* an effect has thrown and React has unmounted the root
    savedBy,         \* history: document id -> the owner authenticated
                     \* when the save that created it was started
    nSaves,          \* handleSave calls so far
    nSignIns         \* tracker mounts so far (the mounted instance's number)

vars == <<engine, user, store, writes, nextId, glicemia, data, hora,
          loadingSave, saveMessage, timers, registros, loadingRecords,
          dataInicio, dataFim, sub, stale, crashed, savedBy, nSaves, nSignIns>>

formVars == <<glicemia, data, hora>>

listVars == <<registros, loadingRecords, dataInicio, dataFim, sub, stale>>

NoMessage == [type |-> "null", text |-> ""]

NoSub == [status |-> "none", owner |-> NoUser, start |-> InvalidDate,
          end |-> InvalidDate, due |-> FALSE]

(***************************************************************************)
(* The store's query: where timestamp >= start, where timestamp <= end,    *)
(* orderBy timestamp desc (ties by document id), limit.                    *)
(***************************************************************************)
\* mutant: the upper end of the range is not applied
MatchesFromStart(d, start, end) ==
    start.valid /\ end.valid /\ d.timestamp >= start.t

Matches(d, start, end) ==
    start.valid /\ end.valid /\ d.timestamp >= start.t /\ d.timestamp <= end.t

\* mutant: ascending order
BeforeAscending(a, b) ==
    \/ a.timestamp < b.timestamp
    \/ a.timestamp = b.timestamp /\ a.id < b.id

Before(a, b) ==
    \/ a.timestamp > b.timestamp
    \/ a.timestamp = b.timestamp /\ a.id > b.id

Limit(n) == IF n < QueryLimit THEN n ELSE QueryLimit

Query(docs, start, end) ==
    LET M == SortSeq(SelectSeq(docs, LAMBDA d : Matches(d, start, end)), Before)
    IN  SubSeq(M, 1, Limit(Len(M)))

\* mutant: one collection for every owner
GLICEMIA_COLLECTION_Shared(userId) == "o1"

\* artifacts/${appId}/users/${userId}/glicemia_records: the partition of
\* the store the tracker reads and writes, named by its owner
GLICEMIA_COLLECTION(userId) == userId

\* the listener the history effect opens
OpenSub(o, di, df) ==
    [status |-> "active", owner |-> GLICEMIA_COLLECTION(o),
     start |-> NewDate(engine, di, <<0, 0>>, 0),
     end |-> NewDate(engine, df, <<23, 59>>, 59),
     due |-> TRUE]

\* mutant: the cleanup leaves the listener registered
unsubscribeLeak(l) == l

\* unsubscribe(): the listener is removed and its observer is muted
unsubscribe(l) == [l EXCEPT !.status = "muted"]

\* mutant: a delivery on its way reaches the callbacks after unsubscribe
observerCalledAlways(l) == TRUE

\* the listener's callbacks are called only as long as it is not unsubscribed
observerCalled(l) == l.status = "active"

\* The effect's cleanup, return () => unsubscribe(), on the listener l: what
\* is left of the earlier listeners and of l, namely those still registered
\* and, when keepQueued, those with a delivery on its way.
cleanup(l, keepQueued) ==
    {x \in stale \cup (IF l.status = "active" THEN {unsubscribe(l)} ELSE {}) :
        x.status = "active" \/ (keepQueued /\ x.due)}

\* The tracker is unmounted: its effect's cleanup runs and its state is
\* dropped (deliveries on their way to an unmounted tracker reach nothing).
unmount ==
    /\ user' = NoUser
    /\ glicemia' = <<>>
    /\ data' = Today
    /\ hora' = CurrentTime
    /\ loadingSave' = FALSE
    /\ saveMessage' = NoMessage
    /\ timers' = 0
    /\ registros' = <<>>
    /\ loadingRecords' = TRUE
    /\ dataInicio' = Today
    /\ dataFim' = Today
    /\ sub' = NoSub
    /\ stale' = cleanup(sub, FALSE)

(***************************************************************************)
(* Authentication and mounting (useFirebaseAuth, App.renderContent).       *)
(***************************************************************************)
\* onAuthStateChanged delivers a user: the tracker is mounted with its
\* initial state and its history effect runs.
SignIn(o) ==
    /\ ~crashed
    /\ user = NoUser
    /\ nSignIns < MaxSignIns
    /\ user' = o
    /\ nSignIns' = nSignIns + 1
    /\ glicemia' = <<>>
    /\ data' = Today
    /\ hora' = CurrentTime
    /\ loadingSave' = FALSE
    /\ saveMessage' = NoMessage
    /\ timers' = 0
    /\ registros' = <<>>
    /\ loadingRecords' = TRUE
    /\ dataInicio' = Today
    /\ dataFim' = Today
    /\ sub' = OpenSub(o, Today, Today)
    /\ UNCHANGED <<engine, crashed, stale, store, writes, nextId, savedBy, nSaves>>

\* handleSignOut: the tracker is unmounted, its effect's cleanup
\* unsubscribes and its state is dropped.
handleSignOut ==
    /\ user # NoUser
    /\ unmount
    /\ UNCHANGED <<engine, crashed, store, writes, nextId, savedBy, nSaves, nSignIns>>

(***************************************************************************)
(* The form (handleSave).                                                  *)
(***************************************************************************)
\* mutant: only isNaN is tested
isInvalidValueNaNOnly(glicemiaValue) == glicemiaValue.nan

\* isNaN(glicemiaValue) || glicemiaValue <= 0
isInvalidValue(glicemiaValue) ==
    glicemiaValue.nan \/ JsLe(glicemiaValue, PlusZero)

\* The owner fills the form (the onChange setters setGlicemia, setData and
\* setHora) with v, d and h and submits it: handleSave up to its await, that
\* is validation, then addDoc on the collection of the owner the tracker
\* was rendered for.  The submit button is disabled while loadingSave.
handleSave(v, d, h) ==
    /\ user # NoUser
    /\ ~loadingSave
    /\ nSaves < MaxSaves
    /\ nSaves' = nSaves + 1
    /\ glicemia' = v
    /\ data' = d
    /\ hora' = h
    /\ LET glicemiaValue == parseFloat(v)
           recordDate == NewDate(engine, d, h, 0)
       IN  IF isInvalidValue(glicemiaValue)
           THEN /\ saveMessage' = [type |-> "error", text |-> "valor de glicemia invalido"]
                /\ loadingSave' = FALSE
                /\ UNCHANGED <<writes, nextId, savedBy, timers>>
           ELSE IF ~recordDate.valid
           THEN /\ saveMessage' = [type |-> "error", text |-> "Data ou hora invalida"]
                /\ loadingSave' = FALSE
                /\ timers' = timers + 1
                /\ UNCHANGED <<writes, nextId, savedBy>>
           ELSE /\ writes' = writes \cup
                      {[owner |-> GLICEMIA_COLLECTION(user), inst |-> nSignIns,
                        doc |-> [id |-> nextId,
                                 glicemia |-> v,
                                 data |-> Reverse(d),
                                 hora |-> h,
                                 timestamp |-> recordDate.t]]}
                /\ nextId' = nextId + 1
                /\ savedBy' = (nextId :> user) @@ savedBy
                /\ saveMessage' = NoMessage
                /\ loadingSave' = TRUE
                /\ UNCHANGED timers
    /\ UNCHANGED <<engine, crashed, user, store, nSignIns>>
    /\ UNCHANGED listVars

\* The store commits a write and addDoc resolves: the document joins its
\* owner's partition, a listener whose result changes has a snapshot due,
\* and handleSave continues after its await (on a tracker that is still
\* mounted; the setters of an unmounted one do nothing).
addDocResolved(w) ==
    /\ w \in writes
    /\ writes' = writes \ {w}
    /\ store' = [store EXCEPT ![w.owner] = Append(@, w.doc)]
    /\ sub' = IF /\ sub.status = "active"
                 /\ sub.owner = w.owner
                 /\ Query(store'[w.owner], sub.start, sub.end)
                      # Query(store[w.owner], sub.start, sub.end)
              THEN [sub EXCEPT !.due = TRUE]
              ELSE sub
    /\ IF user # NoUser /\ w.inst = nSignIns
       THEN /\ saveMessage' = [type |-> "success", text |-> "salvo com sucesso"]
            /\ glicemia' = <<>>
            /\ loadingSave' = FALSE
            /\ timers' = timers + 1
       ELSE UNCHANGED <<saveMessage, glicemia, loadingSave, timers>>
    /\ UNCHANGED <<engine, crashed, stale, user, nextId, data, hora, registros,
                   loadingRecords, dataInicio, dataFim, savedBy, nSaves, nSignIns>>

\* The store refuses a write and addDoc rejects: nothing is stored and
\* handleSave's catch reports the error.
addDocRejected(w) ==
    /\ w \in writes
    /\ writes' = writes \ {w}
    /\ IF user # NoUser /\ w.inst = nSignIns
       THEN /\ saveMessage' = [type |-> "error", text |-> "Erro ao salvar"]
            /\ loadingSave' = FALSE
            /\ timers' = timers + 1
       ELSE UNCHANGED <<saveMessage, loadingSave, timers>>
    /\ UNCHANGED <<engine, crashed, user, store, nextId, savedBy, nSaves, nSignIns>>
    /\ UNCHANGED formVars
    /\ UNCHANGED listVars

\* setTimeout(() => setSaveMessage({ type: null, text: '' }), 4000)
clearSaveMessage ==
    /\ timers > 0
    /\ timers' = timers - 1
    /\ saveMessage' = NoMessage
    /\ UNCHANGED <<engine, crashed, user, store, writes, nextId, loadingSave,
                   savedBy, nSaves, nSignIns>>
    /\ UNCHANGED formVars
    /\ UNCHANGED listVars

(***************************************************************************)
(* The history effect and its listener.                                    *)
(***************************************************************************)
\* The history effect runs again with the dates di and df, after the
\* cleanup of its previous run.  The code passes new Date(..) to
\* Timestamp.fromDate and query(..) unchecked.  For an Invalid Date the
\* store's client library either builds the query all the same, and the
\* listener is opened on it, or throws while building it; an error thrown
\* in an effect, with no error boundary, makes React unmount the root.
historyEffect(di, df) ==
    \/ /\ dataInicio' = di
       /\ dataFim' = df
       /\ loadingRecords' = TRUE
       /\ sub' = OpenSub(user, di, df)
       /\ stale' = cleanup(sub, TRUE)
       /\ UNCHANGED <<engine, crashed, user, store, writes, nextId, loadingSave,
                      saveMessage, timers, registros, savedBy, nSaves, nSignIns>>
       /\ UNCHANGED formVars
    \/ /\ ~(NewDate(engine, di, <<0, 0>>, 0).valid
            /\ NewDate(engine, df, <<23, 59>>, 59).valid)
       /\ crashed' = TRUE
       /\ unmount
       /\ UNCHANGED <<engine, store, writes, nextId, savedBy, nSaves, nSignIns>>

\* setDataInicio: the effect's cleanup unsubscribes, the effect runs again
setDataInicio(d) ==
    /\ user # NoUser
    /\ d # dataInicio
    /\ Cardinality(stale) < MaxStale
    /\ historyEffect(d, dataFim)

setDataFim(d) ==
    /\ user # NoUser
    /\ d # dataFim
    /\ Cardinality(stale) < MaxStale
    /\ historyEffect(dataInicio, d)

\* onSnapshot's first callback: the query's current result replaces the list
onSnapshotNext ==
    /\ sub.status = "active"
    /\ sub.due
    /\ registros' = Query(store[sub.owner], sub.start, sub.end)
    /\ loadingRecords' = FALSE
    /\ sub' = [sub EXCEPT !.due = FALSE]
    /\ UNCHANGED <<engine, crashed, stale, user, store, writes, nextId, loadingSave,
                   saveMessage, timers, dataInicio, dataFim, savedBy, nSaves, nSignIns>>
    /\ UNCHANGED formVars

\* onSnapshot's second callback: the listener has failed and is over
onSnapshotError ==
    /\ sub.status = "active"
    /\ loadingRecords' = FALSE
    /\ sub' = [sub EXCEPT !.status = "failed", !.due = FALSE]
    /\ UNCHANGED <<engine, crashed, stale, user, store, writes, nextId, loadingSave,
                   saveMessage, timers, registros, dataInicio, dataFim, savedBy,
                   nSaves, nSignIns>>
    /\ UNCHANGED formVars

\* A delivery (snapshot or error) of a listener of an earlier run of the
\* effect arrives: after unsubscribe its callbacks are not called.
staleDelivery ==
    \E l \in stale :
        /\ l.due
        /\ stale' = (stale \ {l})
                      \cup {x \in {[l EXCEPT !.due = FALSE]} : x.status = "active"}
        /\ IF observerCalled(l) /\ user # NoUser
           THEN /\ registros' = Query(store[l.owner], l.start, l.end)
                /\ loadingRecords' = FALSE
           ELSE UNCHANGED <<registros, loadingRecords>>
        /\ UNCHANGED <<engine, crashed, user, store, writes, nextId, loadingSave,
                       saveMessage, timers, dataInicio, dataFim, sub, savedBy,
                       nSaves, nSignIns>>
        /\ UNCHANGED formVars

(***************************************************************************)
(* What the table shows (the tbody of the render).                         *)
(***************************************************************************)
TableView ==
    IF crashed THEN "blank"
    ELSE IF user = NoUser THEN "login"
    ELSE IF loadingRecords THEN "spinner"
    ELSE IF Len(registros) = 0 THEN "Nenhum registro encontrado"
    ELSE "rows"

(***************************************************************************)
(* Specifications.                                                         *)
(***************************************************************************)
Init ==
    /\ engine \in Engines
    /\ user = NoUser
    /\ store = [o \in Owners |-> <<>>]
    /\ writes = {}
    /\ nextId = 1
    /\ glicemia = <<>>
    /\ data = Today
    /\ hora = CurrentTime
    /\ loadingSave = FALSE
    /\ saveMessage = NoMessage
    /\ timers = 0
    /\ registros = <<>>
    /\ loadingRecords = TRUE
    /\ dataInicio = Today
    /\ dataFim = Today
    /\ sub = NoSub
    /\ stale = {}
    /\ crashed = FALSE
    /\ savedBy = <<>>
    /\ nSaves = 0
    /\ nSignIns = 0

Next ==
    \/ \E o \in Owners : SignIn(o)
    \/ handleSignOut
    \/ \E v \in GlicemiaInputs, d \in DataInputs, h \in HoraInputs :
           handleSave(v, d, h)
    \/ \E w \in writes : addDocResolved(w)
    \/ \E w \in writes : addDocRejected(w)
    \/ clearSaveMessage
    \/ \E d \in FilterInputs : setDataInicio(d)
    \/ \E d \in FilterInputs : setDataFim(d)
    \/ onSnapshotNext
    \/ onSnapshotError
    \/ staleDelivery

Spec == Init /\ [][Next]_vars

(***************************************************************************)
(* SpecStats: the statistics and the classification on arbitrary stored    *)
(* values.  The store is an external collaborator, so the owner's          *)
(* partition starts with up to MaxRecords documents of any value text      *)
(* (also texts handleSave would refuse); the tracker is mounted and its    *)
(* listener delivers them.                                                 *)
(***************************************************************************)
RawSamples ==
    {<<"a", "b", "c">>, <<"-", "5">>, <<"5", "0">>, <<"6", "9", ".", "5">>,
     <<"7", "0">>, <<"1", "3", "0">>, <<"1", "3", "0", ".", "5">>,
     <<"1", "8", "0">>, <<"1", "8", "0", ".", "5">>, <<"2", "0", "0">>}

\* the document with id i, stored i minutes after midnight of Today
StoredDoc(i, v) ==
    [id |-> i, glicemia |-> v, data |-> Reverse(Today),
     hora |-> <<i \div 60, i % 60>>,
     timestamp |-> NewDate("strict", Today, <<i \div 60, i % 60>>, 0).t]

\* the state right after SignIn(o), over the given store
Mounted(o, st, n) ==
    /\ engine \in Engines
    /\ user = o
    /\ store = st
    /\ writes = {}
    /\ nextId = n + 1
    /\ glicemia = <<>>
    /\ data = Today
    /\ hora = CurrentTime
    /\ loadingSave = FALSE
    /\ saveMessage = NoMessage
    /\ timers = 0
    /\ registros = <<>>
    /\ loadingRecords = TRUE
    /\ dataInicio = Today
    /\ dataFim = Today
    /\ sub = OpenSub(o, Today, Today)
    /\ stale = {}
    /\ crashed = FALSE
    /\ savedBy = [i \in UNION {{st[p][k].id : k \in 1..Len(st[p])} : p \in Owners} |->
                     CHOOSE p \in Owners : \E k \in 1..Len(st[p]) : st[p][k].id = i]
    /\ nSaves = 0
    /\ nSignIns = 1

InitStats ==
    \E n \in 0..MaxRecords :
        \E f \in [1..n -> RawSamples] :
            Mounted("o1",
                    [o \in Owners |->
                        IF o = "o1" THEN [i \in 1..n |-> StoredDoc(i, f[i])]
                        ELSE <<>>],
                    n)

NextStats == onSnapshotNext \/ onSnapshotError

SpecStats == InitStats /\ [][NextStats]_vars

(***************************************************************************)
(* SpecOrder: the statistics on stored values with decimals, whose sums    *)
(* are not exact in binary floating point, in every order of storage.      *)
(***************************************************************************)
DecimalSamples ==
    {<<"1", "2", "9", ".", "4">>, <<"1", "3", "0", ".", "3">>,
     <<"5", "0">>, <<"2", "0", "0">>}

InitOrder ==
    \E n \in 0..MaxRecords :
        \E f \in [1..n -> DecimalSamples] :
            Mounted("o1",
                    [o \in Owners |->
                        IF o = "o1" THEN [i \in 1..n |-> StoredDoc(i, f[i])]
                        ELSE <<>>],
                    n)

SpecOrder == InitOrder /\ [][NextStats]_vars

(***************************************************************************)
(* SpecCap: the history listener on a partition that already holds         *)
(* Backlog documents of Today, so that the query's limit is reached.       *)
(***************************************************************************)
InitCap ==
    Mounted("o1",
            [o \in Owners |->
                IF o = "o1" THEN [i \in 1..Backlog |-> StoredDoc(i, <<"1", "2", "0">>)]
                ELSE <<StoredDoc(0, <<"2", "0", "0">>)>>],
            Backlog)

NextCap ==
    \/ \E d \in FilterInputs, h \in {<<0, 0>>, <<23, 59>>} :
           handleSave(<<"1", "2", "0">>, d, h)
    \/ \E w \in writes : addDocResolved(w)
    \/ \E d \in FilterInputs : setDataInicio(d)
    \/ \E d \in FilterInputs : setDataFim(d)
    \/ onSnapshotNext
    \/ onSnapshotError
    \/ staleDelivery

SpecCap == InitCap /\ [][NextCap]_vars

(***************************************************************************)
(* SpecHist: the history effect and its listeners.  The owner's partition  *)
(* starts with two documents of Today; the owner changes and clears the    *)
(* dates of the range filter, saves records of either day, signs out and   *)
(* in again, while snapshots and errors of the listeners arrive.           *)
(***************************************************************************)
InitHist ==
    Mounted("o1",
            [o \in Owners |->
                IF o = "o1"
                THEN <<StoredDoc(1, <<"1", "2", "0">>), StoredDoc(2, <<"2", "0", "0">>)>>
                ELSE <<>>],
            2)

NextHist ==
    \/ \E o \in Owners : SignIn(o)
    \/ handleSignOut
    \/ \E d \in FilterInputs : handleSave(<<"1", "2", "0">>, d, CurrentTime)
    \/ \E w \in writes : addDocResolved(w)
    \/ \E d \in FilterInputsOrCleared : setDataInicio(d)
    \/ \E d \in FilterInputsOrCleared : setDataFim(d)
    \/ onSnapshotNext
    \/ onSnapshotError
    \/ staleDelivery

SpecHist == InitHist /\ [][NextHist]_vars

(***************************************************************************)
(* The specification's vocabulary, used by the properties below.           *)
(***************************************************************************)
\* the band of a value v = num/den by the four ranges of the classifier
ExpectedBand(v) ==
    IF v.num < 70 * v.den THEN "Hypoglycemia"
    ELSE IF v.num <= 130 * v.den THEN "Optimal"
    ELSE IF v.num <= 180 * v.den THEN "Moderate"
    ELSE "Hyperglycemia"

BandOfStatus(st) ==
    CASE st = "hipoglicemia" -> "Hypoglycemia"
      [] st = "otimo" -> "Optimal"
      [] st = "moderado" -> "Moderate"
      [] st = "hiperglicemia" -> "Hyperglycemia"
      [] st = "info" -> "Informational"
      [] OTHER -> "none"

BandOfStyle(style) ==
    CASE style = "text-blue-600" -> "Hypoglycemia"
      [] style = "text-green-600" -> "Optimal"
      [] style = "text-yellow-700" -> "Moderate"
      [] style = "text-red-600" -> "Hyperglycemia"
      [] OTHER -> "none"

FiveBands ==
    {"Hypoglycemia", "Optimal", "Moderate", "Hyperglycemia", "Informational"}

Parses(r) == ~parseFloat(r.glicemia).nan

ValueOf(r) == StrDecimalLiteral(r.glicemia)

\* the largest denominator among the values of regs
RECURSIVE CommonDen(_)
CommonDen(regs) ==
    IF regs = <<>> THEN 1
    ELSE Max2(ValueOf(Head(regs)).den, CommonDen(Tail(regs)))

\* the sum of the values of regs, in units of 1/D
RECURSIVE TotalIn(_, _)
TotalIn(regs, D) ==
    IF regs = <<>> THEN 0
    ELSE ValueOf(Head(regs)).num * (D \div ValueOf(Head(regs)).den)
         + TotalIn(Tail(regs), D)

\* the arithmetic mean of the values of a non-empty regs whose values parse
MeanOf(regs) ==
    [num |-> TotalIn(regs, CommonDen(regs)), den |-> CommonDen(regs) * Len(regs)]

\* fx is the text of x = num/den rounded to f decimals
IsRounded(fx, x, f) ==
    /\ fx.kind = "digits"
    /\ fx.digits = f
    /\ fx.sign = (IF x.num < 0 THEN "-" ELSE "")
    /\ 2 * Abs(fx.n * x.den - Abs(x.num) * Pow10(f)) <= x.den

LeValue(a, b) == a.num * b.den <= b.num * a.den

Zero == [kind |-> "digits", sign |-> "", n |-> 0, digits |-> 0]

(***************************************************************************)
(* C1.  Every numeric value falls in exactly one of the four bands         *)
(* (below 70 Hypoglycemia, 70 to 130 Optimal, above 130 to 180 Moderate,   *)
(* above 180 Hyperglycemia), and both classifications follow this          *)
(* partition: the style of every displayed row with a numeric value, and   *)
(* the status of the summary on the average.                               *)
(***************************************************************************)
C1_ClassificationPartition ==
    /\ \A i \in 1..Len(registros) :
           Parses(registros[i]) =>
               BandOfStyle(getGlicemiaStyle(registros[i].glicemia))
                   = ExpectedBand(ValueOf(registros[i]))
    /\ LET parsed == SelectSeq(registros, Parses)
       IN  Len(parsed) > 0 =>
               BandOfStatus(stats(registros).status) = ExpectedBand(MeanOf(parsed))

\* a row of exactly 130 is shown as optimal while the average is above 130
C1_Witness ==
    /\ \E i \in 1..Len(registros) :
           /\ registros[i].glicemia = <<"1", "3", "0">>
           /\ getGlicemiaStyle(registros[i].glicemia) = "text-green-600"
    /\ \E i \in 1..Len(registros) : registros[i].glicemia = <<"1", "3", "0", ".", "5">>
    /\ Len(registros) = 2
    /\ stats(registros).status = "moderado"

(***************************************************************************)
(* C2.  The summary of any record list equals the summary of the list      *)
(* without its unparseable records (so a list in which nothing parses      *)
(* gives the empty summary), and its status is one of the five bands.      *)
(***************************************************************************)
C2_UnparseableRecordsOmitted ==
    /\ stats(registros) = stats(SelectSeq(registros, Parses))
    /\ BandOfStatus(stats(registros).status) \in FiveBands

C4_EmptySummary ==
    Len(registros) = 0 =>
        /\ stats(registros).count = 0
        /\ stats(registros).avg = Zero
        /\ stats(registros).min = Zero
        /\ stats(registros).max = Zero
        /\ BandOfStatus(stats(registros).status) = "Informational"

\* the listener has delivered an empty result
C4_Witness ==
    /\ sub.status = "active"
    /\ ~sub.due
    /\ ~loadingRecords
    /\ Len(registros) = 0
    /\ stats(registros).status = "info"

(***************************************************************************)
(* Vocabulary of the properties on saving and on the history.              *)
(***************************************************************************)
\* the value text does not parse as a number, or parses to a value <= 0
ValueRefused(v) == LET x == StrDecimalLiteral(v) IN x.nan \/ x.num <= 0

\* the date and time texts name a day of the calendar and a minute of it
ValidInstant(d, h) ==
    /\ Len(d) = 3
    /\ d[2] \in 1..12
    /\ d[3] \in 1..DaysInMonth(d[1], d[2])
    /\ Len(h) = 2
    /\ h[1] \in 0..23
    /\ h[2] \in 0..59

\* this step is a call of handleSave
SaveStarted == nSaves' = nSaves + 1

InSeq(d, seq) == \E i \in 1..Len(seq) : seq[i] = d

\* first and last second of a calendar day
StartInstant(d) ==
    (DaysBeforeYear(d[1]) + DaysBeforeMonth(d[1], d[2]) + d[3] - 1) * 86400

EndInstant(d) == StartInstant(d) + 86399

\* the date text names a day of the calendar
ValidDay(d) ==
    /\ Len(d) = 3
    /\ d[2] \in 1..12
    /\ d[3] \in 1..DaysInMonth(d[1], d[2])

\* the record's observedAt lies in the window selected by the filter
InWindow(r) ==
    /\ ValidDay(dataInicio)
    /\ ValidDay(dataFim)
    /\ r.timestamp >= StartInstant(dataInicio)
    /\ r.timestamp <= EndInstant(dataFim)

\* this step delivers a snapshot to the listener
Delivered ==
    /\ sub.status = "active"
    /\ sub.due
    /\ sub'.status = "active"
    /\ ~sub'.due

\* the documents of the partition that handleSave created (SpecCap starts
\* with documents 1..Backlog)
SavedDocs(o) == {k \in 1..Len(store[o]) : store[o][k].id > Backlog}

(***************************************************************************)
(* C5.  A save whose value does not parse or is <= 0 fails with the        *)
(* invalid-value message and creates no document: no write is issued, and  *)
(* the store, the displayed list and the filter window stay as they were.  *)
(***************************************************************************)
C5_InvalidValueSaveRejected ==
    [][(SaveStarted /\ ValueRefused(glicemia')) =>
           /\ saveMessage' = [type |-> "error", text |-> "valor de glicemia invalido"]
           /\ writes' = writes
           /\ store' = store
           /\ registros' = registros
           /\ dataInicio' = dataInicio
           /\ dataFim' = dataFim]_vars

\* "-5" was just refused while a record is displayed
C5_Witness ==
    /\ glicemia = <<"-", "5">>
    /\ saveMessage = [type |-> "error", text |-> "valor de glicemia invalido"]
    /\ Len(registros) > 0
    /\ ~loadingRecords

(***************************************************************************)
(* C6.  A save with a valid value whose date and time do not combine into  *)
(* a valid instant (such as 2024-02-30) fails with the invalid-date        *)
(* message and no record is persisted.                                     *)
(***************************************************************************)
C6_InvalidDateTimeRejected ==
    [][(SaveStarted /\ ~ValueRefused(glicemia') /\ ~ValidInstant(data', hora')) =>
           /\ saveMessage' = [type |-> "error", text |-> "Data ou hora invalida"]
           /\ writes' = writes
           /\ store' = store]_vars

(***************************************************************************)
(* C7.  As claimed: every snapshot delivered to the listener holds every   *)
(* saved record of its owner whose observedAt is in the window, and no     *)
(* record outside the window.                                              *)
(***************************************************************************)
C7_EverySavedRecordDelivered ==
    [][Delivered =>
           /\ \A k \in SavedDocs(user) :
                  InWindow(store[user][k]) => InSeq(store[user][k], registros')
           /\ \A i \in 1..Len(registros') : InWindow(registros'[i])]_vars

(***************************************************************************)
(* C7, amended.  Every snapshot delivered to the listener holds every      *)
(* saved record of its owner whose observedAt is in the window, unless     *)
(* the snapshot is full (100 records) and all of its records are at least  *)
(* as recent; it holds no record outside the window; and when the store    *)
(* commits a record of the listener's owner that is in the window and      *)
(* has fewer than 100 more recent matching records, a snapshot is due.     *)
(***************************************************************************)
C7_SavedRecordDeliveredWithinLimit ==
    [][/\ Delivered =>
              /\ \A k \in SavedDocs(user) :
                     InWindow(store[user][k]) =>
                         \/ InSeq(store[user][k], registros')
                         \/ /\ Len(registros') = 100
                            /\ \A i \in 1..Len(registros') :
                                   registros'[i].timestamp >= store[user][k].timestamp
              /\ \A i \in 1..Len(registros') : InWindow(registros'[i])
       /\ \A w \in writes :
              (/\ w \notin writes'
               /\ store'[w.owner] = Append(store[w.owner], w.doc)
               /\ sub.status = "active"
               /\ w.owner = user
               /\ InWindow(w.doc)
               /\ Cardinality({k \in 1..Len(store[user]) :
                                   /\ InWindow(store[user][k])
                                   /\ store[user][k].timestamp >= w.doc.timestamp}) < 100)
              => (sub'.status = "active" /\ sub'.due)]_vars

\* a saved record is displayed, another saved one lies outside the window
C7_Witness ==
    /\ user # NoUser
    /\ sub.status = "active"
    /\ ~sub.due
    /\ ~loadingRecords
    /\ \E i \in 1..Len(registros) : registros[i].id > Backlog
    /\ \E k \in SavedDocs(user) :
           /\ ~InWindow(store[user][k])
           /\ ~InSeq(store[user][k], registros)

(***************************************************************************)
(* C8.  After the listener has reported its failure, the history view is   *)
(* in an explicit "unable to load" state, which is neither the loaded      *)
(* state, nor the empty-result state, nor the loading state.               *)
(***************************************************************************)
C8_FailureShownAsUnableToLoad ==
    sub.status = "failed" =>
        TableView \notin {"rows", "Nenhum registro encontrado", "spinner"}

(***************************************************************************)
(* C9.  Every stored document and every write in flight is in the          *)
(* partition of the owner who was authenticated when its save was          *)
(* started; the listener reads the partition of the authenticated owner,   *)
(* and every displayed record comes from that partition.                   *)
(***************************************************************************)
C9_OwnerPartition ==
    /\ \A o \in Owners :
           \A k \in 1..Len(store[o]) : savedBy[store[o][k].id] = o
    /\ \A w \in writes : savedBy[w.doc.id] = w.owner
    /\ sub.status # "none" => sub.owner = user
    /\ user # NoUser =>
           \A i \in 1..Len(registros) : InSeq(registros[i], store[user])
    /\ user = NoUser => registros = <<>>

\* o2 is signed in and sees a record while a save of o1 is still in flight
C9_Witness ==
    /\ user = "o2"
    /\ Len(registros) > 0
    /\ \E w \in writes : savedBy[w.doc.id] = "o1"

(***************************************************************************)
(* C10.  After a snapshot delivery the displayed list is exactly the       *)
(* owner's records whose observedAt lies in the window [start of the       *)
(* start date, end of the end date], most recent first, at most 100 of     *)
(* them, and when more than 100 match, the 100 most recent.                *)
(***************************************************************************)
C10_SnapshotReplacesList ==
    [][Delivered =>
           LET matching == {k \in 1..Len(store[user]) : InWindow(store[user][k])}
               n == Len(registros')
           IN  /\ n = (IF Cardinality(matching) > 100 THEN 100
                       ELSE Cardinality(matching))
               /\ \A i \in 1..n :
                      /\ InSeq(registros'[i], store[user])
                      /\ InWindow(registros'[i])
               /\ \A i \in 1..(n - 1) :
                      registros'[i].timestamp >= registros'[i + 1].timestamp
               /\ \A i, j \in 1..n : i # j => registros'[i] # registros'[j]
               /\ \A k \in matching :
                      \/ InSeq(store[user][k], registros')
                      \/ \A i \in 1..n :
                             registros'[i].timestamp >= store[user][k].timestamp
               /\ ~loadingRecords']_vars

\* more than 100 records match and the list holds 100, a saved one among them
C10_Witness ==
    /\ user # NoUser
    /\ sub.status = "active"
    /\ ~sub.due
    /\ ~loadingRecords
    /\ Len(registros) = 100
    /\ Cardinality({k \in 1..Len(store[user]) : InWindow(store[user][k])}) > 100
    /\ \E i \in 1..Len(registros) : registros[i].id > Backlog

(***************************************************************************)
(* Vocabulary of the properties on the listeners and on reordering.        *)
(***************************************************************************)
\* the reorderings of n records
Reorderings(n) ==
    {p \in [1..n -> 1..n] : \A i, j \in 1..n : i # j => p[i] # p[j]}

\* count, average, min, max and status of the summary
Summary(regs) ==
    LET S == stats(regs) IN <<S.count, S.avg, S.min, S.max, S.status>>

\* the listeners that are registered with the store
ActiveListeners == {l \in stale \cup {sub} : l.status = "active"}

\* this step is the arrival of a delivery of a listener that was torn down
TornDownDelivery ==
    /\ user' = user
    /\ sub' = sub
    /\ \E l \in stale : l.status = "muted" /\ l.due /\ stale' = stale \ {l}

(***************************************************************************)
(* C11.  When the start date or the end date of the filter is not a        *)
(* calendar date (a cleared date input), building the window fails with    *)
(* an invalid-range error shown by the view, which stays up, and no        *)
(* listener is open on the invalid window.                                 *)
(***************************************************************************)
C11_MalformedRangeRejected ==
    /\ ~crashed
    /\ (user # NoUser /\ ~(ValidDay(dataInicio) /\ ValidDay(dataFim))) =>
           /\ sub.status # "active"
           /\ TableView = "InvalidRange"

(***************************************************************************)
(* C12.  The summary does not depend on the order of the records: every    *)
(* reordering of the displayed list gives the same count, average, min,    *)
(* max and status.                                                         *)
(***************************************************************************)
C12_SummaryOrderInvariant ==
    \A p \in Reorderings(Len(registros)) :
        Summary([i \in 1..Len(registros) |-> registros[p[i]]]) = Summary(registros)

(***************************************************************************)
(* C13.  At most one listener of the history is registered at any time:    *)
(* a change of the owner or of a filter date releases the previous         *)
(* listener in the step that opens the new one, and none is registered     *)
(* while the tracker is not displayed.                                     *)
(***************************************************************************)
C13_AtMostOneSubscription ==
    /\ Cardinality(ActiveListeners) <= 1
    /\ user = NoUser => ActiveListeners = {}
    /\ sub.status = "active" => sub.owner = user

\* a filter date was changed while a delivery was on its way: the old
\* listener is torn down and the new one is the only one registered
C13_Witness ==
    /\ user # NoUser
    /\ dataFim # Today
    /\ ActiveListeners = {sub}
    /\ \E l \in stale : l.status = "muted" /\ l.end # sub.end

C15_DisplayedRecordsInWindow ==
    (user # NoUser /\ ~loadingRecords) =>
        \A i \in 1..Len(registros) : InWindow(registros[i])

=============================================================================
